---- MODULE Spec2Model ----
(***************************************************************************)
(* Model of SearchSage (src/app.py): one Streamlit session running the     *)
(* conversation-aware query pipeline.  Text is modelled as a sequence of   *)
(* Unicode code points, so that formatting, joining and stripping are      *)
(* computed character by character as Python computes them.  The external  *)
(* collaborators (the reformulation LLM, the reasoning agent and its       *)
(* tools) are nondeterministic: a call returns a text from a small set,    *)
(* raises an Exception, which the script catches, or raises an exception   *)
(* outside the Exception class, which ends the script run.  A call that    *)
(* no try encloses ends the script run whatever it raises.                 *)
(***************************************************************************)
EXTENDS Integers, Sequences, FiniteSets, TLC

\* ---------------------------------------------------------------- bounds
MaxTurns == 3        \* user inputs accepted in one explored session
MaxOutLen == 5       \* longest completion text explored by SpecPost
MaxToolCalls == 2    \* tool invocations explored inside one agent run

\* ------------------------------------------------------------- text values
\* A text is a sequence of Unicode code points (Python's ord of each
\* character): 97 is "a", 32 the space, 34 the double quote, 12 the form feed.

\* Marker for "not assigned in this script run"; it is a sequence, like every
\* text, but no text equals it (-1 is not a code point).
None == <<-1>>

\* The same marker for the search tool and the tool registry, whose elements
\* are tool names.
NoTool == <<"None">>

\* the argument of strip('"'), line 97
QUOTE == 34

\* The characters str.strip() removes when called without argument (line 97):
\* exactly those for which str.isspace() holds.
Whitespace ==
    (9..13)              \* \t \n \v \f \r
    \cup (28..31)        \* file, group, record and unit separators
    \cup {32}            \* space
    \cup {133, 160}      \* next line, no-break space
    \cup {5760}          \* ogham space mark
    \cup (8192..8202)    \* en quad .. hair space
    \cup {8232, 8233}    \* line separator, paragraph separator
    \cup {8239, 8287}    \* narrow no-break space, medium mathematical space
    \cup {12288}         \* ideographic space

\* Characters the reformulation LLM's output is drawn from: "a", the space,
\* the form feed (whitespace for str.strip() only) and the double quote.
OutAlphabet == {97, 32, 12, QUOTE}

RECURSIVE TextsUpTo(_)
TextsUpTo(n) ==
    IF n = 0 THEN {<<>>}
    ELSE LET shorter == TextsUpTo(n - 1)
         IN  shorter \cup {Append(s, c) : s \in {t \in shorter : Len(t) = n - 1},
                                          c \in OutAlphabet}

ReformOutputs == TextsUpTo(MaxOutLen)

\* The completion texts explored by whole sessions: '', 'a', '"a"' and
\* ' a' followed by a form feed.
SampleOutputs == {<<>>, <<97>>, <<QUOTE, 97, QUOTE>>, <<32, 97, 12>>}

\* st.chat_input returns a non-empty text (an empty one is falsy, line 59):
\* 'a' and ' "a"'.
Queries == {<<97>>, <<32, QUOTE, 97, QUOTE>>}
\* 'b'
Answers == {<<98>>}
\* 'e'
ErrMsgs == {<<101>>}

\* "User: "
UserPrefix == <<85, 115, 101, 114, 58, 32>>
\* "Assistant: "
AssistantPrefix == <<65, 115, 115, 105, 115, 116, 97, 110, 116, 58, 32>>
\* "No prior conversation."
NoPriorConversation ==
    <<78, 111, 32, 112, 114, 105, 111, 114, 32, 99, 111, 110, 118,
      101, 114, 115, 97, 116, 105, 111, 110, 46>>
\* "Error during agent run: "
ErrPrefix ==
    <<69, 114, 114, 111, 114, 32, 100, 117, 114, 105, 110, 103, 32,
      97, 103, 101, 110, 116, 32, 114, 117, 110, 58, 32>>
\* "\n"
NEWLINE == <<10>>

\* ------------------------------------------------------------ pure helpers
\* str.lstrip(chars) / str.rstrip(chars) / str.strip(chars)
RECURSIVE LStrip(_, _)
LStrip(s, chars) ==
    IF s # <<>> /\ Head(s) \in chars THEN LStrip(Tail(s), chars) ELSE s

RECURSIVE RStrip(_, _)
RStrip(s, chars) ==
    IF s # <<>> /\ s[Len(s)] \in chars
    THEN RStrip(SubSeq(s, 1, Len(s) - 1), chars)
    ELSE s

Strip(s, chars) == RStrip(LStrip(s, chars), chars)

\* Plausible slip: the quote strip is dropped.
PostProcessNoQuoteStrip(out) == Strip(out, Whitespace)

\* line 97: standalone_question.strip().strip('"')
PostProcess(out) == Strip(Strip(out, Whitespace), {QUOTE})

\* sep.join(lines)
RECURSIVE Join(_, _)
Join(lines, sep) ==
    IF lines = <<>> THEN <<>>
    ELSE IF Len(lines) = 1 THEN lines[1]
    ELSE lines[1] \o sep \o Join(Tail(lines), sep)

UserTurn(content) == [role |-> "user", content |-> content]

AssistantTurn(content) == [role |-> "assistant", content |-> content]

\* Plausible slip: the slice is forgotten and the newest turn is serialized.
HistoryPriorWhole(h) == h

\* line 79: st.session_state["chat_history"][:-1]
HistoryPrior(h) == SubSeq(h, 1, Len(h) - 1)

\* lines 80-85: one formatted line per turn
FormatLine(m) ==
    IF m.role = "user" THEN UserPrefix \o m.content
    ELSE AssistantPrefix \o m.content

\* lines 78-85
HistoryMessages(prior) == [i \in 1..Len(prior) |-> FormatLine(prior[i])]

\* line 86
HistoryBlock(msgs) ==
    IF msgs # <<>> THEN Join(msgs, NEWLINE) ELSE NoPriorConversation

\* lines 32-39: the search tool exists only with a SerpAPI key
SearchTool(key) == IF key THEN <<"search">> ELSE NoTool

\* Plausible slip: the search tool is appended after the two fixed tools.
ToolsForSearchLast(s) ==
    <<"arxiv", "wikipedia">> \o (IF s # NoTool THEN s ELSE <<>>)

\* lines 104-107
ToolsFor(s) == (IF s # NoTool THEN s ELSE <<>>) \o <<"arxiv", "wikipedia">>

Range(f) == {f[i] : i \in DOMAIN f}

\* ------------------------------------------------------------------- state
VARIABLES
    groq_api_key,        \* TRUE iff the secret GROQ_API_KEY is truthy
    serpapi_key,         \* TRUE iff the secret SERPAPI_KEY is truthy
    chat_history,        \* st.session_state["chat_history"]
    pc,                  \* position of the script run
    user_query,
    history_messages,
    history_block,
    reform_result,       \* raw text returned by reformulation_chain.run()
    reform_raised,       \* TRUE iff reformulation_chain.run() raised
    standalone_question,
    tools,
    response,
    agent_exc,           \* message of the exception raised by the agent run
    reform_calls,        \* reformulation completion calls in this run
    agent_calls,         \* agent runs started in this run
    tool_calls,          \* names of the tools invoked in this run, in order
    ui_assistant,        \* what was written to the assistant chat message
    turns,               \* script runs that processed a user input
    aborted,             \* where an uncaught exception ended this run
    n_aborted            \* runs so ended before the append of line 125

vars == <<groq_api_key, serpapi_key, chat_history, pc, user_query,
          history_messages, history_block, reform_result, reform_raised,
          standalone_question, tools, response, agent_exc, reform_calls,
          agent_calls, tool_calls, ui_assistant, turns, aborted, n_aborted>>

creds == <<groq_api_key, serpapi_key>>
search == SearchTool(serpapi_key)

Init ==
    /\ groq_api_key \in BOOLEAN
    /\ serpapi_key \in BOOLEAN
    /\ chat_history = <<>>
    /\ pc = "idle"
    /\ user_query = None
    /\ history_messages = None
    /\ history_block = None
    /\ reform_result = None
    /\ reform_raised = FALSE
    /\ standalone_question = None
    /\ tools = NoTool
    /\ response = None
    /\ agent_exc = None
    /\ reform_calls = 0
    /\ agent_calls = 0
    /\ tool_calls = <<>>
    /\ ui_assistant = "none"
    /\ turns = 0
    /\ aborted = "no"
    /\ n_aborted = 0

\* ----------------------------------------------------------------- actions
\* Plausible slip: the new turn is inserted at the front of the history.
UserInputPrepend(q) ==
    /\ pc = "idle"
    /\ turns < MaxTurns
    /\ chat_history' = <<UserTurn(q)>> \o chat_history
    /\ user_query' = q
    /\ history_messages' = None
    /\ history_block' = None
    /\ reform_result' = None
    /\ reform_raised' = FALSE
    /\ standalone_question' = None
    /\ tools' = NoTool
    /\ response' = None
    /\ agent_exc' = None
    /\ reform_calls' = 0
    /\ agent_calls' = 0
    /\ tool_calls' = <<>>
    /\ ui_assistant' = "none"
    /\ aborted' = "no"
    /\ pc' = "gate"
    /\ UNCHANGED <<creds, turns, n_aborted>>

\* lines 59-62: a script run that receives a user input
UserInput(q) ==
    /\ pc = "idle"
    /\ turns < MaxTurns
    /\ chat_history' = Append(chat_history, UserTurn(q))
    /\ user_query' = q
    /\ history_messages' = None
    /\ history_block' = None
    /\ reform_result' = None
    /\ reform_raised' = FALSE
    /\ standalone_question' = None
    /\ tools' = NoTool
    /\ response' = None
    /\ agent_exc' = None
    /\ reform_calls' = 0
    /\ agent_calls' = 0
    /\ tool_calls' = <<>>
    /\ ui_assistant' = "none"
    /\ aborted' = "no"
    /\ pc' = "gate"
    /\ UNCHANGED <<creds, turns, n_aborted>>

\* lines 65-66: the error is written to the page, nothing is appended
GateGroqMissing ==
    /\ pc = "gate"
    /\ ~groq_api_key
    /\ ui_assistant' = "groq_missing"
    /\ pc' = "idle"
    /\ turns' = turns + 1
    /\ UNCHANGED <<creds, aborted, n_aborted, chat_history, user_query, history_messages,
                   history_block, reform_result, reform_raised,
                   standalone_question, tools, response, agent_exc,
                   reform_calls, agent_calls, tool_calls>>

\* lines 67-68
GateSerpapiMissing ==
    /\ pc = "gate"
    /\ groq_api_key
    /\ ~serpapi_key
    /\ ui_assistant' = "serpapi_missing"
    /\ pc' = "idle"
    /\ turns' = turns + 1
    /\ UNCHANGED <<creds, aborted, n_aborted, chat_history, user_query, history_messages,
                   history_block, reform_result, reform_raised,
                   standalone_question, tools, response, agent_exc,
                   reform_calls, agent_calls, tool_calls>>

\* lines 62-72: a call outside any try raises before the transcript is built
\* (the page writes of lines 62, 66 and 68; from_template of line 72); the
\* script run ends with the user turn unanswered and no completion call.
GateAbort ==
    /\ pc = "gate"
    /\ aborted' = "gate"
    /\ n_aborted' = n_aborted + 1
    /\ pc' = "idle"
    /\ turns' = turns + 1
    /\ UNCHANGED <<creds, chat_history, user_query, history_messages,
                   history_block, reform_result, reform_raised,
                   standalone_question, tools, response, agent_exc,
                   reform_calls, agent_calls, tool_calls, ui_assistant>>

\* lines 69-94: both keys present; the transcript is built (lines 78-86), then
\* from_messages, ChatGroq or LLMChain (lines 88, 93, 94) raises, outside any
\* try; the script run ends with the user turn unanswered and no completion
\* call.
GatePassAbort ==
    /\ pc = "gate"
    /\ groq_api_key
    /\ serpapi_key
    /\ history_messages' = HistoryMessages(HistoryPrior(chat_history))
    /\ history_block' = HistoryBlock(history_messages')
    /\ aborted' = "gate"
    /\ n_aborted' = n_aborted + 1
    /\ pc' = "idle"
    /\ turns' = turns + 1
    /\ UNCHANGED <<creds, chat_history, user_query, reform_result,
                   reform_raised, standalone_question, tools, response,
                   agent_exc, reform_calls, agent_calls, tool_calls,
                   ui_assistant>>

\* Plausible slip: the gate lets a run without the Groq key through.
GatePassNoGroqCheck ==
    /\ pc = "gate"
    /\ serpapi_key
    /\ history_messages' = HistoryMessages(HistoryPrior(chat_history))
    /\ history_block' = HistoryBlock(history_messages')
    /\ pc' = "reformulate"
    /\ UNCHANGED <<creds, aborted, n_aborted, chat_history, user_query, reform_result,
                   reform_raised, standalone_question, tools, response,
                   agent_exc, reform_calls, agent_calls, tool_calls,
                   ui_assistant, turns>>

\* lines 69-94: both keys present and no call of lines 72-94 raises; the
\* transcript and the prompt are built
GatePass ==
    /\ pc = "gate"
    /\ groq_api_key
    /\ serpapi_key
    /\ history_messages' = HistoryMessages(HistoryPrior(chat_history))
    /\ history_block' = HistoryBlock(history_messages')
    /\ pc' = "reformulate"
    /\ UNCHANGED <<creds, aborted, n_aborted, chat_history, user_query, reform_result,
                   reform_raised, standalone_question, tools, response,
                   agent_exc, reform_calls, agent_calls, tool_calls,
                   ui_assistant, turns>>

\* lines 96-97: the completion call returns and is post-processed
ReformulateReturn(out) ==
    /\ pc = "reformulate"
    /\ reform_calls' = reform_calls + 1
    /\ reform_result' = out
    /\ standalone_question' = PostProcess(out)
    /\ pc' = "tools"
    /\ UNCHANGED <<creds, aborted, n_aborted, chat_history, user_query, history_messages,
                   history_block, reform_raised, tools, response, agent_exc,
                   agent_calls, tool_calls, ui_assistant, turns>>

\* lines 96, 98-99: the completion call raises; fall back to the raw input
ReformulateRaise ==
    /\ pc = "reformulate"
    /\ reform_calls' = reform_calls + 1
    /\ reform_raised' = TRUE
    /\ standalone_question' = user_query
    /\ pc' = "tools"
    /\ UNCHANGED <<creds, aborted, n_aborted, chat_history, user_query, history_messages,
                   history_block, reform_result, tools, response, agent_exc,
                   agent_calls, tool_calls, ui_assistant, turns>>

\* line 96, with the guard of line 98: the completion call raises an exception
\* whose class does not derive from Exception (KeyboardInterrupt, SystemExit,
\* a script-control exception); `except Exception` lets it through and the
\* script run ends there.
ReformulateAbort ==
    /\ pc = "reformulate"
    /\ reform_calls' = reform_calls + 1
    /\ aborted' = "reformulate"
    /\ n_aborted' = n_aborted + 1
    /\ pc' = "idle"
    /\ turns' = turns + 1
    /\ UNCHANGED <<creds, chat_history, user_query, history_messages,
                   history_block, reform_result, reform_raised,
                   standalone_question, tools, response, agent_exc,
                   agent_calls, tool_calls, ui_assistant>>

\* lines 102-115: the tool registry and the agent are built.  The raw text of
\* the completion was overwritten at line 97, so it is not carried further.
BuildTools ==
    /\ pc = "tools"
    /\ tools' = ToolsFor(search)
    /\ reform_result' = None
    /\ pc' = "agent"
    /\ UNCHANGED <<creds, aborted, n_aborted, chat_history, user_query, history_messages,
                   history_block, reform_raised,
                   standalone_question, response, agent_exc, reform_calls,
                   agent_calls, tool_calls, ui_assistant, turns>>

\* line 102: ChatGroq raises (no try around it); the script run ends before
\* the registry is built.
BuildToolsAbort ==
    /\ pc = "tools"
    /\ aborted' = "tools"
    /\ n_aborted' = n_aborted + 1
    /\ reform_result' = None
    /\ pc' = "idle"
    /\ turns' = turns + 1
    /\ UNCHANGED <<creds, chat_history, user_query, history_messages,
                   history_block, reform_raised, standalone_question, tools,
                   response, agent_exc, reform_calls, agent_calls, tool_calls,
                   ui_assistant>>

\* lines 104-115: the registry is built (lines 104-107), then initialize_agent
\* raises (no try around it); the script run ends with the registry bound and
\* no agent.
InitializeAgentAbort ==
    /\ pc = "tools"
    /\ tools' = ToolsFor(search)
    /\ aborted' = "tools"
    /\ n_aborted' = n_aborted + 1
    /\ reform_result' = None
    /\ pc' = "idle"
    /\ turns' = turns + 1
    /\ UNCHANGED <<creds, chat_history, user_query, history_messages,
                   history_block, reform_raised, standalone_question,
                   response, agent_exc, reform_calls, agent_calls, tool_calls,
                   ui_assistant>>

\* lines 118-119: st.chat_message, st.container or StreamlitCallbackHandler
\* raises before the try of line 120; the script run ends with the registry
\* built and the agent never run.
AgentStartAbort ==
    /\ pc = "agent"
    /\ aborted' = "agent_start"
    /\ n_aborted' = n_aborted + 1
    /\ pc' = "idle"
    /\ turns' = turns + 1
    /\ UNCHANGED <<creds, chat_history, user_query, history_messages,
                   history_block, reform_result, reform_raised,
                   standalone_question, tools, response, agent_exc,
                   reform_calls, agent_calls, tool_calls, ui_assistant>>

\* lines 118-121: lines 118-119 do not raise and
\* search_agent.run(standalone_question) is entered
AgentStart ==
    /\ pc = "agent"
    /\ agent_calls' = agent_calls + 1
    /\ pc' = "running"
    /\ UNCHANGED <<creds, aborted, n_aborted, chat_history, user_query, history_messages,
                   history_block, reform_result, reform_raised,
                   standalone_question, tools, response, agent_exc,
                   reform_calls, tool_calls, ui_assistant, turns>>

\* line 121: inside the run, the agent invokes one of the registered tools
AgentInvokeTool(t) ==
    /\ pc = "running"
    /\ Len(tool_calls) < MaxToolCalls
    /\ t \in Range(tools)
    /\ tool_calls' = Append(tool_calls, t)
    /\ UNCHANGED <<creds, aborted, n_aborted, chat_history, pc, user_query, history_messages,
                   history_block, reform_result, reform_raised,
                   standalone_question, tools, response, agent_exc,
                   reform_calls, agent_calls, ui_assistant, turns>>

\* line 121: the run returns a final answer
AgentReturn(ans) ==
    /\ pc = "running"
    /\ response' = ans
    /\ pc' = "append"
    /\ UNCHANGED <<creds, aborted, n_aborted, chat_history, user_query, history_messages,
                   history_block, reform_result, reform_raised,
                   standalone_question, tools, agent_exc, reform_calls,
                   agent_calls, tool_calls, ui_assistant, turns>>

\* lines 122-123: the run raises; the exception becomes the response text
AgentRaise(msg) ==
    /\ pc = "running"
    /\ agent_exc' = msg
    /\ response' = ErrPrefix \o msg
    /\ pc' = "append"
    /\ UNCHANGED <<creds, aborted, n_aborted, chat_history, user_query, history_messages,
                   history_block, reform_result, reform_raised,
                   standalone_question, tools, reform_calls, agent_calls,
                   tool_calls, ui_assistant, turns>>

\* line 121, with the guard of line 122: the agent run raises an exception
\* whose class does not derive from Exception; `except Exception as e` lets it
\* through, line 125 is not reached and the script run ends there.
AgentAbort ==
    /\ pc = "running"
    /\ aborted' = "agent"
    /\ n_aborted' = n_aborted + 1
    /\ pc' = "idle"
    /\ turns' = turns + 1
    /\ UNCHANGED <<creds, chat_history, user_query, history_messages,
                   history_block, reform_result, reform_raised,
                   standalone_question, tools, response, agent_exc,
                   reform_calls, agent_calls, tool_calls, ui_assistant>>

\* lines 125-126: the response is appended and written; the run ends
AppendAssistant ==
    /\ pc = "append"
    /\ chat_history' = Append(chat_history, AssistantTurn(response))
    /\ ui_assistant' = "response"
    /\ pc' = "idle"
    /\ turns' = turns + 1
    /\ UNCHANGED <<creds, aborted, n_aborted, user_query, history_messages, history_block,
                   reform_result, reform_raised, standalone_question, tools,
                   response, agent_exc, reform_calls, agent_calls,
                   tool_calls>>

\* lines 125-126: the response is appended, then st.write raises; the script
\* run ends with the assistant turn stored but not written to the page.
AssistantWriteAbort ==
    /\ pc = "append"
    /\ chat_history' = Append(chat_history, AssistantTurn(response))
    /\ aborted' = "assistant_write"
    /\ pc' = "idle"
    /\ turns' = turns + 1
    /\ UNCHANGED <<creds, n_aborted, user_query, history_messages,
                   history_block, reform_result, reform_raised,
                   standalone_question, tools, response, agent_exc,
                   reform_calls, agent_calls, tool_calls, ui_assistant>>

Next ==
    \/ \E q \in Queries : UserInput(q)
    \/ GateGroqMissing
    \/ GateSerpapiMissing
    \/ GatePass
    \/ GateAbort
    \/ GatePassAbort
    \/ \E out \in SampleOutputs : ReformulateReturn(out)
    \/ ReformulateRaise
    \/ ReformulateAbort
    \/ BuildTools
    \/ BuildToolsAbort
    \/ InitializeAgentAbort
    \/ AgentStart
    \/ AgentStartAbort
    \/ \E t \in {"search", "arxiv", "wikipedia"} : AgentInvokeTool(t)
    \/ \E ans \in Answers : AgentReturn(ans)
    \/ \E msg \in ErrMsgs : AgentRaise(msg)
    \/ AgentAbort
    \/ AppendAssistant
    \/ AssistantWriteAbort

Spec == Init /\ [][Next]_vars

\* The script run up to the end of the reformulation (lines 59-99), with the
\* completion text drawn from every text of at most MaxOutLen characters.
NextPost ==
    \/ \E q \in Queries : UserInput(q)
    \/ GateGroqMissing
    \/ GateSerpapiMissing
    \/ GatePass
    \/ GateAbort
    \/ GatePassAbort
    \/ \E out \in ReformOutputs : ReformulateReturn(out)
    \/ ReformulateRaise
    \/ ReformulateAbort

SpecPost == Init /\ [][NextPost]_vars

TypeOK ==
    /\ pc \in {"idle", "gate", "reformulate", "tools", "agent", "running",
               "append"}
    /\ turns \in 0..MaxTurns
    /\ \A i \in 1..Len(chat_history) :
          chat_history[i].role \in {"user", "assistant"}

\* ------------------------------------------------------------- properties
Last(h) == h[Len(h)]

IsPrefix(a, b) == Len(a) <= Len(b) /\ SubSeq(b, 1, Len(a)) = a

StartsWith(s, p) == Len(s) >= Len(p) /\ SubSeq(s, 1, Len(p)) = p

\* s is r with every leading and trailing character of chars removed,
\* stated without recursion: s is a slice of r, what was cut off lies in
\* chars, and nothing more could be cut off.
IsStripOf(s, r, chars) ==
    \E i \in 1..(Len(r) + 1) : \E j \in 0..Len(r) :
        /\ s = SubSeq(r, i, j)
        /\ \A k \in 1..(i - 1) : r[k] \in chars
        /\ \A k \in (j + 1)..Len(r) : r[k] \in chars
        /\ s # <<>> => (s[1] \notin chars /\ s[Len(s)] \notin chars)
        /\ s = <<>> => \A k \in 1..Len(r) : r[k] \in chars

\* At most one quote character is removed from each end.
StripOneLayer(t) ==
    LET a == IF t # <<>> /\ Head(t) = QUOTE THEN Tail(t) ELSE t
    IN  IF a # <<>> /\ a[Len(a)] = QUOTE THEN SubSeq(a, 1, Len(a) - 1) ELSE a

InTurn == pc \in {"reformulate", "tools", "agent", "running", "append"}

\* C1: after N completed turns the history has length exactly 2N, each user
\* turn being followed by exactly one assistant turn, also when the turn was
\* blocked by the credential gate or the agent run failed.
C1_HistoryLenIs2N ==
    pc = "idle" =>
        /\ Len(chat_history) = 2 * turns
        /\ \A i \in 1..Len(chat_history) :
              chat_history[i].role = (IF i % 2 = 1 THEN "user" ELSE "assistant")

\* C2: in a turn where the LLM credential is absent, no reformulation call,
\* no agent run and no tool invocation occurs, whatever the search credential
\* and the history are; the run ends at the gate.
C2_NoCallWithoutLLMKey ==
    ~groq_api_key =>
        /\ reform_calls = 0
        /\ agent_calls = 0
        /\ tool_calls = <<>>
        /\ tools = NoTool
        /\ pc \in {"idle", "gate"}

C2_Witness ==
    /\ ~groq_api_key
    /\ serpapi_key
    /\ pc = "idle"
    /\ turns = 2
    /\ Len(chat_history) = 2
    /\ ui_assistant = "groq_missing"

\* C3: when the LLM credential is present and the search credential absent,
\* the turn proceeds: the registry is built without the search tool and the
\* agent is run with only the ArXiv and Wikipedia tools.
C3_ProceedsWithoutSearch ==
    (groq_api_key /\ ~serpapi_key /\ pc = "idle" /\ turns >= 1
        /\ aborted = "no") =>
        /\ tools = <<"arxiv", "wikipedia">>
        /\ agent_calls = 1
        /\ Last(chat_history).role = "assistant"

\* C4: a built tool registry is exactly <<arxiv, wikipedia>> without the
\* search credential and exactly <<search, arxiv, wikipedia>> with it (search
\* first, named by the lowercase "search"); no tool appears twice.
C4_ToolRegistry ==
    tools # NoTool =>
        /\ tools = IF serpapi_key THEN <<"search", "arxiv", "wikipedia">>
                   ELSE <<"arxiv", "wikipedia">>
        /\ {"arxiv", "wikipedia"} \subseteq Range(tools)
        /\ Cardinality(Range(tools)) = Len(tools)

C4_Witness ==
    /\ pc = "running"
    /\ serpapi_key
    /\ tools = <<"search", "arxiv", "wikipedia">>
    /\ tool_calls = <<"search", "wikipedia">>

\* C5: if the reformulation call raises ANY error, the standalone
\* question is the raw user input unchanged, the call is not made a second
\* time, and the turn goes on to the agent run.
C5_AnyRaiseFallsBack ==
    (reform_raised \/ aborted = "reformulate") =>
        /\ standalone_question = user_query
        /\ reform_calls = 1
        /\ pc = "idle" => agent_calls = 1

\* C6: if the agent run raises an exception, whatever its class, the turn
\* still completes: after the user turn exactly one assistant turn is
\* appended, whose content is "Error during agent run: " followed by the
\* exception message.
C6_AnyAgentRaiseGivesTurn ==
    (pc = "idle" /\ (agent_exc # None \/ aborted = "agent")) =>
        /\ Len(chat_history) >= 2
        /\ Last(chat_history).role = "assistant"
        /\ StartsWith(Last(chat_history).content, ErrPrefix)
        /\ agent_exc # None =>
              Last(chat_history).content = ErrPrefix \o agent_exc
        /\ chat_history[Len(chat_history) - 1] = UserTurn(user_query)

\* C7: the transcript given to the reformulator is built from the history
\* without the newest user turn: the placeholder "No prior conversation." if
\* that prior history is empty, otherwise one line per prior turn, in order,
\* prefixed "User: " or "Assistant: " by role, joined by newlines.
C7_Transcript ==
    InTurn =>
        LET n == Len(chat_history) - 1
        IN  /\ Last(chat_history) = UserTurn(user_query)
            /\ Len(history_messages) = n
            /\ \A i \in 1..n :
                  history_messages[i] =
                      (IF chat_history[i].role = "user" THEN UserPrefix
                       ELSE AssistantPrefix) \o chat_history[i].content
            /\ n = 0 => history_block = NoPriorConversation
            /\ n > 0 => history_block = Join(history_messages, NEWLINE)

C7_Witness ==
    /\ pc = "reformulate"
    /\ Len(chat_history) = 3
    /\ history_block =
          UserPrefix \o <<97>> \o NEWLINE \o AssistantPrefix \o <<98>>

\* C8: the history is append-only: every step leaves the stored turns
\* unchanged in content, role and position, so the history of any earlier
\* state is a prefix of the history of any later state.
C8_AppendOnly == [][IsPrefix(chat_history, chat_history')]_vars

C8_Witness ==
    /\ pc = "idle"
    /\ Len(chat_history) = 4
    /\ chat_history[1].content # chat_history[3].content

\* C9 as stated: after the whitespace trim exactly one layer of surrounding
\* quote characters is removed, so a doubly quoted result keeps its inner
\* layer of quotes.
C9_OneLayerOnly ==
    reform_result # None =>
        standalone_question = StripOneLayer(Strip(reform_result, Whitespace))

\* C9 amended: after the whitespace trim EVERY leading and trailing double
\* quote is removed (all layers, balanced or not); a doubly quoted result
\* loses both layers, and a trimmed text that neither starts nor ends with a
\* quote is returned as trimmed.
C9_AllQuotesStripped ==
    reform_result # None =>
        \E a \in 1..(Len(reform_result) + 1) : \E b \in 0..Len(reform_result) :
            LET t == SubSeq(reform_result, a, b)
            IN  /\ IsStripOf(t, reform_result, Whitespace)
                /\ IsStripOf(standalone_question, t, {QUOTE})
                /\ (t = <<>> \/ (t[1] # QUOTE /\ t[Len(t)] # QUOTE))
                       => standalone_question = t

C9_Witness ==
    /\ reform_result = <<QUOTE, QUOTE, 97, QUOTE, QUOTE>>
    /\ standalone_question = <<97>>
    /\ pc = "tools"

\* C10: with the credentials fixed for the session, between turns
\* the history strictly alternates user, assistant, ... starting with a user
\* turn when both credentials are present, and holds only user turns
\* otherwise; so whenever the reformulator runs, the prior history it
\* serializes has even length and its lines alternate "User: " /
\* "Assistant: ".
C10_StrictAlternation ==
    /\ pc = "idle" =>
          IF groq_api_key /\ serpapi_key
          THEN /\ Len(chat_history) % 2 = 0
               /\ \A i \in 1..Len(chat_history) :
                     chat_history[i].role =
                         (IF i % 2 = 1 THEN "user" ELSE "assistant")
          ELSE \A i \in 1..Len(chat_history) : chat_history[i].role = "user"
    /\ pc = "reformulate" =>
          /\ Len(history_messages) % 2 = 0
          /\ \A i \in 1..Len(history_messages) :
                /\ StartsWith(history_messages[i],
                              IF i % 2 = 1 THEN UserPrefix ELSE AssistantPrefix)
                /\ i > 1 => chat_history[i].role # chat_history[i - 1].role
====
